---------------------------- MODULE Spec2Model ----------------------------
(***************************************************************************)
(* Darwin-Goedel-Machine: the transactional code-modification step         *)
(* (self_modification/implementation.py, ImplementationManager) and the    *)
(* two population archives (archive/agent_archive.py and                   *)
(* archive/archive_manager.py).                                            *)
(*                                                                         *)
(* File contents are sequences of tokens.  A token stands for a piece of   *)
(* text: "a", "b", "c" are valid statements, "sp" one blank of             *)
(* indentation, "nl" the newline character, "#" the start of a comment,    *)
(* "q3" a one-line docstring, "init" the text 'def __init__', "None" the   *)
(* text None, "err" text that is no valid Python, "bad" a byte that does   *)
(* not decode as text.                                                     *)
(***************************************************************************)
EXTENDS Integers, Sequences, FiniteSets, TLC

VARIABLES
    \* ---- ImplementationManager and the working copy it mutates ----
    wc,            \* the working copy: file name -> content (agent_path on disk)
    wc0,           \* the working copy when the running implement_proposal call was entered
    backup_dir,    \* self.backup_dir (NoBackup = None)
    backups,       \* the backup directories on disk: backup id -> snapshot
    mkdtemp_n,     \* number of directories tempfile.mkdtemp has handed out
    pc,            \* position of implement_proposal: "idle" (no call), "apply"
                   \* (in the for loop), "done" (at a return statement)
    proposal,      \* proposal.code_changes of the running call
    dry_run,       \* the dry_run argument of the running call
    idx,           \* position of the for loop over proposal.code_changes
    outcome,       \* per iteration: "ok" (True), "false" (False), "raised"
    results,       \* the results dict of the running call
    rolled_from,   \* the backup _rollback_changes restored in this call (NoBackup if none)
    attempts,      \* number of implement_proposal calls made so far
    \* ---- the system clock both archives read ----
    now,           \* what datetime.now() returns
    \* ---- archive/agent_archive.py: AgentArchive ----
    agents,        \* self.agents: agent id -> ArchivedAgent
    metadata_file, \* archive_metadata.json on disk
    agent_dirs,    \* the per-agent directories on disk: agent id -> copied source
    uuid_n,        \* number of ids uuid.uuid4() has handed out
    aa_ret,        \* the last add_agent call: its arguments and how it ended
    \* ---- archive/archive_manager.py: AgentArchive ----
    entries,       \* self.entries in dict order: a sequence of ArchiveEntry
    index_json,    \* index.json on disk
    agent_files,   \* the agent_<id>.py files on disk: agent id -> copied source
    am_ret,        \* the last add_agent call: its arguments and how it ended
    \* ---- queries on an archive and archive/parent_selector.py ----
    sel_ret,       \* the last query or select call: its arguments and what it gave
    sel_pc,        \* position of HybridSelection.select: "idle" (no call),
                   \* "scored" (after the loop that sets _combined_score)
    _combined_score,\* the _combined_score attribute of the records that have
                   \* one: agent id -> value
    \* ---- one call of a function that keeps no state ----
    fn_args,       \* the function called and the arguments it is given
    fn_ret,        \* what the call returned (NotCalled before it has run)
    \* ---- a second process with an AgentArchive on the same directory ----
    peer_agents,   \* self.agents of that process's archive/agent_archive.py archive
    \* ---- dgm_controller.py: DGMController.run ----
    config,        \* the configuration: stop_on_error and benchmarks.enabled
    ctl_pc,        \* position of run: "start", "loop" (at the while test),
                   \* "stopped" (after the final report), "raised" (an exception left run)
    self_generation,    \* self.generation
    evaluation,    \* the last _evaluate_agent call: the scores it returned and
                   \* the benchmarks whose run raised
    gen_log        \* how the last _run_generation ended, as the log tells

implVars == <<wc, wc0, backup_dir, backups, mkdtemp_n, pc, proposal, dry_run,
              idx, outcome, results, rolled_from, attempts>>

archiveVars == <<agents, metadata_file, agent_dirs, uuid_n, aa_ret>>

managerVars == <<entries, index_json, agent_files, am_ret>>

selectVars == <<sel_ret, sel_pc, _combined_score>>

funcVars == <<fn_args, fn_ret>>

peerVars == <<peer_agents>>

controllerVars == <<config, ctl_pc, self_generation, evaluation, gen_log>>

vars == <<wc, wc0, backup_dir, backups, mkdtemp_n, pc, proposal, dry_run,
          idx, outcome, results, rolled_from, attempts, now,
          agents, metadata_file, agent_dirs, uuid_n, aa_ret,
          entries, index_json, agent_files, am_ret,
          sel_ret, sel_pc, _combined_score,
          fn_args, fn_ret,
          peer_agents,
          config, ctl_pc, self_generation, evaluation, gen_log>>

---------------------------------------------------------------------------
\* Bounds of the model

MaxChanges == 2      \* longest proposal.code_changes
MaxAttempts == 2     \* implement_proposal calls in one behaviour
MaxLen == 5          \* tokens a file can hold before a write fails (disk full)
MaxTime == 1         \* the clock runs from 0 to MaxTime
MaxAgents == 2       \* add_agent calls on the agent_archive.py archive
MaxAdds == 2         \* add_agent calls on the archive_manager.py archive
max_size == 1        \* the max_size the archive_manager.py archive is built with
MaxParents == 2      \* largest n a query or a selection is asked for

---------------------------------------------------------------------------
\* Text as token sequences

NoBackup == 0
NoCode == <<>>       \* old_code / new_code that is None

\* old in content, for a non-empty old
Contains(s, sub) ==
    /\ Len(sub) > 0
    /\ \E i \in 1..(Len(s) - Len(sub) + 1) : SubSeq(s, i, i + Len(sub) - 1) = sub

\* content.replace(old, new): every non-overlapping occurrence, left to right
RECURSIVE Replace(_, _, _)
Replace(s, old, new) ==
    IF Len(s) < Len(old) \/ Len(old) = 0 THEN s
    ELSE IF SubSeq(s, 1, Len(old)) = old
         THEN new \o Replace(SubSeq(s, Len(old) + 1, Len(s)), old, new)
         ELSE <<Head(s)>> \o Replace(Tail(s), old, new)

\* content.split('\n'): a sequence of lines, one more than there are newlines
RECURSIVE SplitLines(_)
SplitLines(s) ==
    IF \A i \in 1..Len(s) : s[i] # "nl" THEN <<s>>
    ELSE LET k == CHOOSE i \in 1..Len(s) :
                      s[i] = "nl" /\ \A j \in 1..(i - 1) : s[j] # "nl"
         IN <<SubSeq(s, 1, k - 1)>> \o SplitLines(SubSeq(s, k + 1, Len(s)))

\* '\n'.join(lines)
RECURSIVE JoinLines(_)
JoinLines(lines) ==
    IF Len(lines) = 0 THEN <<>>
    ELSE IF Len(lines) = 1 THEN lines[1]
    ELSE lines[1] \o <<"nl">> \o JoinLines(Tail(lines))

\* lines.insert(i, x) with a 0-based i <= len(lines)
InsertLine(lines, i, x) ==
    SubSeq(lines, 1, i) \o <<x>> \o SubSeq(lines, i + 1, Len(lines))

\* bool(line.strip())
NonBlank(line) == \E i \in 1..Len(line) : line[i] # "sp"

\* len(line) - len(line.lstrip())
RECURSIVE Indent(_)
Indent(line) ==
    IF Len(line) = 0 \/ Head(line) # "sp" THEN 0 ELSE 1 + Indent(Tail(line))

StartsWith(line, tok) == Len(line) > 0 /\ line[1] = tok

\* f"{new_code}": None is formatted as the text None
Fmt(code) == IF code = NoCode THEN <<"None">> ELSE code

\* read_text() raises UnicodeDecodeError on a file with an undecodable byte
Undecodable(content) == \E i \in 1..Len(content) : content[i] = "bad"

---------------------------------------------------------------------------
\* The file operations of one CodeChange.  Each returns [res, fs]: res is
\* "ok" (the method returned True), "false" (it returned False) or "raised"
\* (it raised), fs the working copy it leaves.

Put(fs, f, content) ==
    [x \in (DOMAIN fs) \cup {f} |-> IF x = f THEN content ELSE fs[x]]

Unlink(fs, f) == [x \in (DOMAIN fs) \ {f} |-> fs[x]]

Ok(fs) == [res |-> "ok", fs |-> fs]
Failed(fs) == [res |-> "false", fs |-> fs]
Raised(fs) == [res |-> "raised", fs |-> fs]

\* file_path.write_text(content) followed by return True; the write raises
\* OSError, leaving the file truncated, when the disk cannot hold the content
WriteText(fs, f, content) ==
    IF Len(content) > MaxLen THEN Raised(Put(fs, f, <<>>))
    ELSE Ok(Put(fs, f, content))

\* the loop that finds where to insert imports: the 0-based index of the
\* first line that is not blank and starts neither a comment nor a
\* docstring, -1 for None
RECURSIVE FindImportLine(_, _)
FindImportLine(lines, i) ==
    IF i >= Len(lines) THEN -1
    ELSE LET line == lines[i + 1]
         IN IF NonBlank(line) /\ ~StartsWith(line, "#") /\ ~StartsWith(line, "q3")
            THEN i
            ELSE FindImportLine(lines, i + 1)

\* the loop that finds the end of __init__: the 0-based index of the first
\* non-blank line after a 'def __init__' line that is indented no deeper
\* than it, -1 for None.  indent_level is -1 while it is None.
RECURSIVE FindInitEnd(_, _, _, _)
FindInitEnd(lines, i, in_init, indent_level) ==
    IF i >= Len(lines) THEN -1
    ELSE LET line == lines[i + 1]
         IN IF \E k \in 1..Len(line) : line[k] = "init"
            THEN FindInitEnd(lines, i + 1, TRUE, Indent(line))
            ELSE IF in_init /\ NonBlank(line) /\ indent_level # -1
                    /\ Indent(line) <= indent_level
                 THEN i
                 ELSE FindInitEnd(lines, i + 1, in_init, indent_level)

_apply_add_change(fs, change) ==
    LET f == change.file_path
        new == change.new_code
    IN IF f \notin DOMAIN fs
       THEN IF new # NoCode THEN WriteText(fs, f, new) ELSE Failed(fs)
       ELSE IF Undecodable(fs[f]) THEN Raised(fs)
       ELSE LET content == fs[f]
                lines == SplitLines(content)
            IN IF change.location = "imports" /\ new # NoCode
               THEN LET import_line == FindImportLine(lines, 0)
                    IN IF import_line # -1
                       THEN WriteText(fs, f, JoinLines(InsertLine(lines, import_line, new)))
                       ELSE Failed(fs)
               ELSE IF change.location = "__init__" /\ new # NoCode
               THEN LET insert_line == FindInitEnd(lines, 0, FALSE, -1)
                    IN IF insert_line # -1 /\ insert_line # 0
                       THEN WriteText(fs, f, JoinLines(InsertLine(lines, insert_line, new)))
                       ELSE Failed(fs)
               ELSE WriteText(fs, f, content \o <<"nl", "nl">> \o Fmt(new))

_apply_modify_change(fs, change) ==
    LET f == change.file_path
    IN IF f \notin DOMAIN fs THEN Failed(fs)
       ELSE IF Undecodable(fs[f]) THEN Raised(fs)
       ELSE IF change.old_code # NoCode /\ change.new_code # NoCode
               /\ Contains(fs[f], change.old_code)
            THEN WriteText(fs, f, Replace(fs[f], change.old_code, change.new_code))
            ELSE Failed(fs)

_apply_delete_change(fs, change) ==
    LET f == change.file_path
    IN IF f \notin DOMAIN fs THEN Failed(fs)
       ELSE IF change.old_code # NoCode
            THEN IF Undecodable(fs[f]) THEN Raised(fs)
                 ELSE IF Contains(fs[f], change.old_code)
                      THEN WriteText(fs, f, Replace(fs[f], change.old_code, <<>>))
                      ELSE Failed(fs)
            ELSE Ok(Unlink(fs, f))

\* a variant that forgets the dry_run early return
_apply_code_change_no_dry_run(fs, change, dry) ==
    IF change.change_type = "add" THEN _apply_add_change(fs, change)
    ELSE IF change.change_type = "modify" THEN _apply_modify_change(fs, change)
    ELSE IF change.change_type = "delete" THEN _apply_delete_change(fs, change)
    ELSE Failed(fs)

_apply_code_change(fs, change, dry) ==
    IF dry
    THEN IF change.change_type = "add" THEN Ok(fs)
         ELSE IF change.change_type \in {"modify", "delete"} /\ change.file_path \in DOMAIN fs
              THEN Ok(fs)
         ELSE IF change.change_type \in {"modify", "delete"} /\ change.file_path \notin DOMAIN fs
              THEN Failed(fs)
         ELSE Ok(fs)
    ELSE IF change.change_type = "add" THEN _apply_add_change(fs, change)
         ELSE IF change.change_type = "modify" THEN _apply_modify_change(fs, change)
         ELSE IF change.change_type = "delete" THEN _apply_delete_change(fs, change)
         ELSE Failed(fs)

\* ast.parse of one file as _verify_modifications sees it: "warning" when
\* reading or parsing raises something other than SyntaxError (here: the file
\* does not decode), "syntax" when the text before a comment on some line is
\* no valid Python, "ok" otherwise
RECURSIVE CodePart(_)
CodePart(line) ==
    IF Len(line) = 0 \/ Head(line) = "#" THEN <<>>
    ELSE <<Head(line)>> \o CodePart(Tail(line))

ParseFile(content) ==
    IF Undecodable(content) THEN "warning"
    ELSE IF \E i \in 1..Len(SplitLines(content)) :
                 \E k \in 1..Len(CodePart(SplitLines(content)[i])) :
                     CodePart(SplitLines(content)[i])[k] = "err"
         THEN "syntax"
         ELSE "ok"

_check_imports(fs) == {}

\* a variant that records a SyntaxError as a warning only
_verify_modifications_syntax_as_warning(fs) ==
    [valid |-> _check_imports(fs) = {},
     errors |-> _check_imports(fs),
     warnings |-> {f \in DOMAIN fs : ParseFile(fs[f]) # "ok"}]

_verify_modifications(fs) ==
    LET syntax == {f \in DOMAIN fs : ParseFile(fs[f]) = "syntax"}
        import_errors == _check_imports(fs)
    IN [valid |-> syntax = {} /\ import_errors = {},
        errors |-> syntax \cup import_errors,
        warnings |-> {f \in DOMAIN fs : ParseFile(fs[f]) = "warning"}]

---------------------------------------------------------------------------
\* Inputs: the working copies a run may start from and the CodeChanges a
\* proposal may be made of

Files == {"f1", "f2"}

NoFiles == [x \in {} |-> <<>>]

AgentSource == <<"q3", "nl", "a">>

InitialCopies ==
    { [x \in {"f1"} |-> AgentSource],
      [x \in {"f1", "f2"} |-> IF x = "f1" THEN <<"a">> ELSE <<"bad">>],
      NoFiles }

CodeChange(file_path, change_type, location, old_code, new_code, priority) ==
    [file_path |-> file_path, change_type |-> change_type, location |-> location,
     old_code |-> old_code, new_code |-> new_code, priority |-> priority]

ChangePool ==
    { CodeChange("f1", "add", "imports", NoCode, <<"b">>, 2),
      CodeChange("f1", "add", "none", NoCode, <<"err">>, 2),
      CodeChange("f1", "modify", "none", <<"a">>, <<"b">>, 1),
      CodeChange("f2", "modify", "none", <<"c">>, <<"b">>, 1),
      CodeChange("f1", "delete", "none", NoCode, NoCode, 1) }

Proposals == UNION { [1..n -> ChangePool] : n \in 0..MaxChanges }

---------------------------------------------------------------------------
\* ImplementationManager

NoVerification == [ran |-> FALSE, valid |-> FALSE, errors |-> {}, warnings |-> {}]

NewResults ==
    [success |-> FALSE, changes_applied |-> <<>>, errors |-> {},
     backup_path |-> NoBackup, verification |-> NoVerification]

ChangeError(i) == [kind |-> "change", idx |-> i, file |-> ""]
ImplementationError == [kind |-> "implementation", idx |-> 0, file |-> ""]
SyntaxErrorIn(f) == [kind |-> "syntax", idx |-> 0, file |-> f]

\* _rollback_changes: the working copy it leaves
_rollback_changes(fs) ==
    IF backup_dir = NoBackup THEN fs
    ELSE IF backup_dir \in DOMAIN backups THEN backups[backup_dir]
    ELSE NoFiles

InitImpl ==
    /\ wc \in InitialCopies
    /\ wc0 = wc
    /\ backup_dir = NoBackup
    /\ backups = [x \in {} |-> NoFiles]
    /\ mkdtemp_n = 0
    /\ pc = "idle"
    /\ proposal = <<>>
    /\ dry_run = FALSE
    /\ idx = 1
    /\ outcome = <<>>
    /\ results = NewResults
    /\ rolled_from = NoBackup
    /\ attempts = 0

\* implement_proposal up to the for loop: results is initialised and, unless
\* dry_run, _create_backup copies the working copy into a fresh directory.
\* created = FALSE is a _create_backup that raises (mkdtemp cannot create the
\* directory): the outer except records the error and rolls back when
\* self.backup_dir is set.
StartImplement(p, dry, created) ==
    /\ pc = "idle"
    /\ attempts < MaxAttempts
    /\ dry => created
    /\ attempts' = attempts + 1
    /\ proposal' = p
    /\ dry_run' = dry
    /\ idx' = 1
    /\ outcome' = <<>>
    /\ wc0' = wc
    /\ UNCHANGED <<now, archiveVars, managerVars, selectVars, funcVars, peerVars, controllerVars>>
    /\ IF dry
       THEN /\ results' = NewResults
            /\ pc' = "apply"
            /\ rolled_from' = NoBackup
            /\ UNCHANGED <<wc, backup_dir, backups, mkdtemp_n>>
       ELSE IF created
       THEN /\ mkdtemp_n' = mkdtemp_n + 1
            /\ backups' = [b \in (DOMAIN backups) \cup {mkdtemp_n + 1} |->
                              IF b = mkdtemp_n + 1 THEN wc ELSE backups[b]]
            /\ backup_dir' = mkdtemp_n + 1
            /\ results' = [NewResults EXCEPT !.backup_path = mkdtemp_n + 1]
            /\ pc' = "apply"
            /\ rolled_from' = NoBackup
            /\ UNCHANGED wc
       ELSE /\ results' = [NewResults EXCEPT !.errors = {ImplementationError}]
            /\ wc' = _rollback_changes(wc)
            /\ rolled_from' = backup_dir
            /\ pc' = "done"
            /\ UNCHANGED <<backup_dir, backups, mkdtemp_n>>

\* one iteration of the for loop over proposal.code_changes
ApplyChange ==
    /\ pc = "apply"
    /\ idx <= Len(proposal)
    /\ LET change == proposal[idx]
           r == _apply_code_change(wc, change, dry_run)
       IN /\ outcome' = Append(outcome, r.res)
          /\ IF r.res = "ok"
             THEN /\ results' = [results EXCEPT !.changes_applied =
                                    Append(@, [file |-> change.file_path,
                                               type |-> change.change_type])]
                  /\ wc' = r.fs
                  /\ idx' = idx + 1
                  /\ UNCHANGED <<pc, rolled_from>>
             ELSE IF r.res = "false"
             THEN /\ wc' = r.fs
                  /\ idx' = idx + 1
                  /\ UNCHANGED <<results, pc, rolled_from>>
             ELSE /\ results' = [results EXCEPT !.errors = @ \cup {ChangeError(idx)}]
                  /\ IF ~dry_run /\ backup_dir # NoBackup
                     THEN /\ wc' = _rollback_changes(r.fs)
                          /\ rolled_from' = backup_dir
                          /\ pc' = "done"
                          /\ idx' = idx
                     ELSE /\ wc' = r.fs
                          /\ idx' = idx + 1
                          /\ UNCHANGED <<pc, rolled_from>>
    /\ UNCHANGED <<wc0, backup_dir, backups, mkdtemp_n, proposal, dry_run, attempts>>
    /\ UNCHANGED <<now, archiveVars, managerVars, selectVars, funcVars, peerVars, controllerVars>>

\* the end of implement_proposal: verification unless dry_run, rollback when
\* it fails, success otherwise
VerifyAndReturn ==
    /\ pc = "apply"
    /\ idx > Len(proposal)
    /\ IF dry_run
       THEN /\ results' = [results EXCEPT !.success = TRUE]
            /\ UNCHANGED <<wc, rolled_from>>
       ELSE LET verification == _verify_modifications(wc)
                v == [ran |-> TRUE, valid |-> verification.valid,
                      errors |-> verification.errors,
                      warnings |-> verification.warnings]
            IN IF ~verification.valid
               THEN /\ wc' = _rollback_changes(wc)
                    /\ rolled_from' = backup_dir
                    /\ results' = [results EXCEPT
                                      !.verification = v,
                                      !.errors = @ \cup {SyntaxErrorIn(f) : f \in verification.errors},
                                      !.success = FALSE]
               ELSE /\ results' = [results EXCEPT !.verification = v, !.success = TRUE]
                    /\ UNCHANGED <<wc, rolled_from>>
    /\ pc' = "done"
    /\ UNCHANGED <<wc0, backup_dir, backups, mkdtemp_n, proposal, dry_run, idx,
                   outcome, attempts>>
    /\ UNCHANGED <<now, archiveVars, managerVars, selectVars, funcVars, peerVars, controllerVars>>

\* implement_proposal returns: the caller has the results, the locals of the
\* call are gone
Return ==
    /\ pc = "done"
    /\ pc' = "idle"
    /\ proposal' = <<>>
    /\ dry_run' = FALSE
    /\ idx' = 1
    /\ outcome' = <<>>
    /\ results' = NewResults
    /\ rolled_from' = NoBackup
    /\ wc0' = wc
    /\ UNCHANGED <<wc, backup_dir, backups, mkdtemp_n, attempts>>
    /\ UNCHANGED <<now, archiveVars, managerVars, selectVars, funcVars, peerVars, controllerVars>>

\* cleanup(): removes the directory self.backup_dir names and forgets it
cleanup ==
    /\ pc = "idle"
    /\ backup_dir # NoBackup
    /\ backup_dir \in DOMAIN backups
    /\ backups' = [b \in (DOMAIN backups) \ {backup_dir} |-> backups[b]]
    /\ backup_dir' = NoBackup
    /\ UNCHANGED <<wc, wc0, mkdtemp_n, pc, proposal, dry_run, idx, outcome,
                   results, rolled_from, attempts>>
    /\ UNCHANGED <<now, archiveVars, managerVars, selectVars, funcVars, peerVars, controllerVars>>

NextImpl ==
    \/ \E p \in Proposals, dry \in BOOLEAN, created \in BOOLEAN :
           StartImplement(p, dry, created)
    \/ ApplyChange
    \/ VerifyAndReturn
    \/ Return
    \/ cleanup

---------------------------------------------------------------------------
\* What both archives share: ids, scores, the clock

None == 0            \* parent_id = None
UnknownId == 0 - 1   \* an id that names no record of any archive

\* scores are in tenths: 8 is 0.8; agent_path is "agentA" or "agentB", a file
\* with that code, or "missing", a path where nothing is

\* how a write of an index file ends: complete; open(path, 'w') raises and
\* the file stays as it was; json.dump raises after open has emptied the file
SaveOutcomes == {"written", "unopened", "truncated"}

\* what datetime.now() can give a call: the clock has moved on since the
\* last reading, or the call follows the last one within the resolution of
\* the clock and reads the same value
Readings == now..MaxTime

---------------------------------------------------------------------------
\* archive/agent_archive.py

NoScores == [b \in {} |-> 0]

\* the agents handed to add_agent: where the code is, what the benchmarks
\* gave, whether validation passed
Evaluated(agent_path, benchmark_scores, is_valid) ==
    [agent_path |-> agent_path, benchmark_scores |-> benchmark_scores,
     is_valid |-> is_valid]

EvaluatedAgents ==
    { Evaluated("agentA", [b \in {"b1"} |-> 8], TRUE),
      Evaluated("agentA", [b \in {"b1", "b2"} |-> IF b = "b1" THEN 4 ELSE 8], TRUE),
      Evaluated("agentB", NoScores, FALSE),
      Evaluated("missing", [b \in {"b1"} |-> 8], TRUE) }

RECURSIVE SumScores(_, _)
SumScores(scores, bs) ==
    IF bs = {} THEN 0
    ELSE LET b == CHOOSE x \in bs : TRUE
         IN scores[b] + SumScores(scores, bs \ {b})

\* sum(scores.values()) / len(scores) if scores else 0.0
AverageScore(scores) ==
    IF DOMAIN scores = {} THEN 0
    ELSE SumScores(scores, DOMAIN scores) \div Cardinality(DOMAIN scores)

ArchivedAgent(agent_id, parent_id, generation, source_path, created_at, benchmark_scores, average_score, is_valid) ==
    [agent_id |-> agent_id, parent_id |-> parent_id, generation |-> generation,
     source_path |-> source_path, created_at |-> created_at,
     benchmark_scores |-> benchmark_scores, average_score |-> average_score,
     is_valid |-> is_valid]

NoAgents == [x \in {} |-> 0]

\* the metadata file: absent, a complete JSON document, or a document cut
\* short by a write that failed
NoMetadataFile == [state |-> "absent", agents |-> NoAgents]
TruncatedMetadataFile == [state |-> "truncated", agents |-> NoAgents]

NoCall == [calls |-> 0, parent_id |-> None, agent_id |-> None, raised |-> "none", fitness_score |-> 0, novelty_score |-> 0]

InitArchive ==
    /\ agents = NoAgents
    /\ metadata_file = NoMetadataFile
    /\ agent_dirs = [x \in {} |-> "missing"]
    /\ uuid_n = 0
    /\ aa_ret = NoCall

\* _save_archive: json.dump of every agent's to_dict(); an exception is
\* logged and swallowed
_save_archive(file, ags, saved) ==
    CASE saved = "written" -> [state |-> "ok", agents |-> ags]
      [] saved = "unopened" -> file
      [] saved = "truncated" -> TruncatedMetadataFile

\* the generation add_agent gives a record
Generation(parent_id, known) ==
    IF parent_id # None /\ parent_id \in DOMAIN known
    THEN known[parent_id].generation + 1
    ELSE 0

\* AgentArchive.add_agent(agent_path, parent_id, benchmark_scores, is_valid)
add_agent(agent_path, parent_id, benchmark_scores, is_valid, time, saved) ==
    /\ uuid_n < MaxAgents
    /\ now' = time
    /\ LET agent_id == uuid_n + 1
           generation == Generation(parent_id, agents)
           agent == ArchivedAgent(agent_id, parent_id, generation, agent_id, time,
                                  benchmark_scores, AverageScore(benchmark_scores),
                                  is_valid)
           added == [x \in (DOMAIN agents) \cup {agent_id} |->
                        IF x = agent_id THEN agent ELSE agents[x]]
       IN /\ uuid_n' = agent_id
          /\ agent_dirs' = IF agent_path # "missing"
                           THEN [x \in (DOMAIN agent_dirs) \cup {agent_id} |->
                                    IF x = agent_id THEN agent_path ELSE agent_dirs[x]]
                           ELSE agent_dirs
          /\ agents' = added
          /\ metadata_file' = _save_archive(metadata_file, added, saved)
          /\ aa_ret' = [calls |-> aa_ret.calls + 1, parent_id |-> parent_id,
                        agent_id |-> agent_id, raised |-> "none",
                        fitness_score |-> 0, novelty_score |-> 0]
    /\ UNCHANGED <<implVars, managerVars, selectVars, funcVars, peerVars, controllerVars>>

\* a fresh AgentArchive on the same directory: __init__ and _load_archive;
\* a file that does not parse is logged and the archive starts empty
_load_archive ==
    /\ agents' = IF metadata_file.state = "ok" THEN metadata_file.agents ELSE NoAgents
    /\ agents' # agents
    /\ UNCHANGED <<metadata_file, agent_dirs, uuid_n, aa_ret>>
    /\ UNCHANGED <<now, implVars, managerVars, selectVars, funcVars, peerVars, controllerVars>>

NextArchive ==
    \/ \E a \in EvaluatedAgents, parent_id \in (DOMAIN agents) \cup {None, UnknownId},
          time \in Readings, saved \in SaveOutcomes :
           add_agent(a.agent_path, parent_id, a.benchmark_scores, a.is_valid, time, saved)
    \/ _load_archive

---------------------------------------------------------------------------
\* archive/archive_manager.py

\* the agents handed to add_agent: where the code is, its fitness and its
\* novelty
Scored(agent_path, fitness_score, novelty_score) ==
    [agent_path |-> agent_path, fitness_score |-> fitness_score,
     novelty_score |-> novelty_score]

ScoredAgents ==
    { Scored("agentA", 9, 0),
      Scored("agentA", 1, 5),
      Scored("agentB", 5, 5),
      Scored("agentB", 1, 0),
      Scored("missing", 9, 0) }

ArchiveEntry(agent_id, agent_path, parent_id, generation, fitness_score, novelty_score, timestamp) ==
    [agent_id |-> agent_id, agent_path |-> agent_path, parent_id |-> parent_id,
     generation |-> generation, fitness_score |-> fitness_score,
     novelty_score |-> novelty_score, timestamp |-> timestamp]

NoIndex == [state |-> "absent", entries |-> <<>>]
TruncatedIndex == [state |-> "truncated", entries |-> <<>>]

InitManager ==
    /\ entries = <<>>
    /\ index_json = NoIndex
    /\ agent_files = [x \in {} |-> "missing"]
    /\ am_ret = NoCall

\* the ids of the records in self.entries
Ids(es) == {es[i].agent_id : i \in 1..Len(es)}

Entry(es, agent_id) == es[CHOOSE i \in 1..Len(es) : es[i].agent_id = agent_id]

EntriesById(es) == [x \in Ids(es) |-> Entry(es, x)]

\* sha256(content + datetime.now().isoformat()).hexdigest()[:16]: a value
\* fixed by the content and the time read, taken to be free of hash
\* collisions (different content or time give different ids)
ContentCode(content) == IF content = "agentA" THEN 1 ELSE 2

_generate_agent_id(content, time) == 100 * ContentCode(content) + time

\* self.entries[agent_id] = entry: a new key goes to the end of the dict,
\* an existing key keeps its place and gets the new value
SetEntry(es, entry) ==
    IF entry.agent_id \in Ids(es)
    THEN [i \in 1..Len(es) |-> IF es[i].agent_id = entry.agent_id THEN entry ELSE es[i]]
    ELSE Append(es, entry)

CombinedScore(e) == e.fitness_score + e.novelty_score

\* sorted(values, key=combined score, reverse=True): stable, records of
\* equal key keep their dict order
RECURSIVE InsertDescending(_, _)
InsertDescending(sorted, e) ==
    IF Len(sorted) = 0 THEN <<e>>
    ELSE IF CombinedScore(Head(sorted)) >= CombinedScore(e)
         THEN <<Head(sorted)>> \o InsertDescending(Tail(sorted), e)
         ELSE <<e>> \o sorted

RECURSIVE SortedDescending(_)
SortedDescending(es) ==
    IF Len(es) = 0 THEN <<>>
    ELSE InsertDescending(SortedDescending(SubSeq(es, 1, Len(es) - 1)), es[Len(es)])

\* a variant that keeps the records first added, whatever their scores
KeptIds_first_added(es) ==
    IF Len(es) <= max_size THEN Ids(es)
    ELSE Ids(SubSeq(es, 1, max_size))

\* the ids _enforce_size_limit keeps
KeptIds(es) ==
    IF Len(es) <= max_size THEN Ids(es)
    ELSE Ids(SubSeq(SortedDescending(es), 1, max_size))

RECURSIVE KeepEntries(_, _)
KeepEntries(es, kept) ==
    IF Len(es) = 0 THEN <<>>
    ELSE IF Head(es).agent_id \in kept
         THEN <<Head(es)>> \o KeepEntries(Tail(es), kept)
         ELSE KeepEntries(Tail(es), kept)

\* _save_archive: json.dump of the entries in dict order; an exception is
\* not caught
SaveIndex(file, es, saved) ==
    CASE saved = "written" -> [state |-> "ok", entries |-> es]
      [] saved = "unopened" -> file
      [] saved = "truncated" -> TruncatedIndex

\* a variant that removes nothing
_enforce_size_limit_keep_all(es, files) ==
    [entries |-> es, files |-> files]

\* _enforce_size_limit: the entries and the agent files it leaves
_enforce_size_limit(es, files) ==
    [entries |-> KeepEntries(es, KeptIds(es)),
     files |-> [x \in (DOMAIN files) \ (Ids(es) \ KeptIds(es)) |-> files[x]]]

\* AgentArchive.add_agent(agent_path, parent_id, fitness_score, novelty_score,
\* ...): the exception of a _save_archive that fails leaves add_agent
AddAgent(agent_path, parent_id, fitness_score, novelty_score, time, saved) ==
    /\ am_ret.calls < MaxAdds
    /\ now' = time
    /\ IF agent_path = "missing"
       THEN /\ am_ret' = [calls |-> am_ret.calls + 1, parent_id |-> parent_id,
                          agent_id |-> None, raised |-> "FileNotFoundError",
                          fitness_score |-> fitness_score,
                          novelty_score |-> novelty_score]
            /\ UNCHANGED <<entries, index_json, agent_files>>
       ELSE LET agent_id == _generate_agent_id(agent_path, time)
                generation == Generation(parent_id, EntriesById(entries))
                entry == ArchiveEntry(agent_id, agent_id, parent_id, generation,
                                      fitness_score, novelty_score, time)
                copied == [x \in (DOMAIN agent_files) \cup {agent_id} |->
                              IF x = agent_id THEN agent_path ELSE agent_files[x]]
                limited == _enforce_size_limit(SetEntry(entries, entry), copied)
            IN /\ entries' = limited.entries
               /\ agent_files' = limited.files
               /\ index_json' = SaveIndex(index_json, limited.entries, saved)
               /\ am_ret' = [calls |-> am_ret.calls + 1, parent_id |-> parent_id,
                             agent_id |-> agent_id,
                             raised |-> IF saved = "written" THEN "none" ELSE "OSError",
                             fitness_score |-> fitness_score,
                             novelty_score |-> novelty_score]
    /\ UNCHANGED <<implVars, archiveVars, selectVars, funcVars, peerVars, controllerVars>>

\* a fresh AgentArchive on the same directory: __init__ sets self.entries = {}
\* and _load_archive fills it from index.json; on a file that does not parse
\* the constructor raises and there is no fresh instance
LoadIndex ==
    /\ index_json.state # "truncated"
    /\ entries' = index_json.entries
    /\ entries' # entries
    /\ UNCHANGED <<index_json, agent_files, am_ret>>
    /\ UNCHANGED <<now, implVars, archiveVars, selectVars, funcVars, peerVars, controllerVars>>

NextManager ==
    \/ \E a \in ScoredAgents, parent_id \in Ids(entries) \cup {None, UnknownId},
          time \in Readings, saved \in SaveOutcomes :
           AddAgent(a.agent_path, parent_id, a.fitness_score, a.novelty_score, time, saved)
    \/ LoadIndex

---------------------------------------------------------------------------
\* A call of a function that keeps no state: before it

NoArgs == [op |-> "none"]
NotCalled == [called |-> FALSE, value |-> <<>>]
Called(value) == [called |-> TRUE, value |-> value]

InitFunc ==
    /\ fn_args = NoArgs
    /\ fn_ret = NotCalled

---------------------------------------------------------------------------
\* A second process on the same archive directory: before it starts

InitPeer == peer_agents = NoAgents

---------------------------------------------------------------------------
\* dgm_controller.py: before run is called

NoEvaluation == [agent_path |-> "none", scores |-> NoScores, failed |-> {}]
NoGeneration == [parent |-> None, outcome |-> "none", raised |-> "none"]

InitController ==
    /\ config = [stop_on_error |-> FALSE, enabled |-> {}]
    /\ ctl_pc = "start"
    /\ self_generation = 0
    /\ evaluation = NoEvaluation
    /\ gen_log = NoGeneration

---------------------------------------------------------------------------
\* Queries and archive/parent_selector.py

NoQuery == [op |-> "none", archive |-> "none", agent_id |-> None, n_parents |-> 0, result |-> <<>>, raised |-> "none"]

NoAttributes == [x \in {} |-> 0]

InitSelect ==
    /\ sel_ret = NoQuery
    /\ sel_pc = "idle"
    /\ _combined_score = NoAttributes

\* self.agents after add_agent has put the record of agent a in
Archived(ags, agent_id, a, parent_id, time) ==
    LET agent == ArchivedAgent(agent_id, parent_id, Generation(parent_id, ags), agent_id, time, a.benchmark_scores, AverageScore(a.benchmark_scores), a.is_valid)
    IN [x \in (DOMAIN ags) \cup {agent_id} |-> IF x = agent_id THEN agent ELSE ags[x]]

\* the archives k add_agent calls of archive/agent_archive.py can build, with
\* the clock reading of the last call
RECURSIVE ArchivesAfter(_)
ArchivesAfter(k) ==
    IF k = 0 THEN {[agents |-> NoAgents, dirs |-> [x \in {} |-> "missing"], now |-> 0]}
    ELSE UNION { UNION { { [agents |-> Archived(p.agents, k, a, parent_id, time),
                            dirs |-> [x \in 1..k |-> IF x = k THEN a.agent_path ELSE p.dirs[x]],
                            now |-> time] :
                           a \in {e \in EvaluatedAgents : e.agent_path # "missing"},
                           parent_id \in (DOMAIN p.agents) \cup {None, UnknownId} } :
                         time \in p.now..MaxTime } :
                 p \in ArchivesAfter(k - 1) }

\* self.entries after add_agent has put the record of agent a in, in an
\* archive that is not full
Entered(es, a, parent_id, time) ==
    LET agent_id == _generate_agent_id(a.agent_path, time)
    IN SetEntry(es, ArchiveEntry(agent_id, agent_id, parent_id, Generation(parent_id, EntriesById(es)), a.fitness_score, a.novelty_score, time))

\* the archives k add_agent calls of archive/archive_manager.py can build
\* when max_size is the default of 100, with the clock reading of the last
\* call
RECURSIVE EntriesAfter(_)
EntriesAfter(k) ==
    IF k = 0 THEN {[entries |-> <<>>, files |-> [x \in {} |-> "missing"], now |-> 0]}
    ELSE UNION { UNION { { [entries |-> Entered(p.entries, a, parent_id, time),
                            files |-> [x \in Ids(Entered(p.entries, a, parent_id, time)) |->
                                         IF x = _generate_agent_id(a.agent_path, time)
                                         THEN a.agent_path ELSE p.files[x]],
                            now |-> time] :
                           a \in {e \in ScoredAgents : e.agent_path # "missing"},
                           parent_id \in Ids(p.entries) \cup {None, UnknownId} } :
                         time \in p.now..MaxTime } :
                 p \in EntriesAfter(k - 1) }

\* a process whose AgentArchive was built on a directory that earlier runs
\* have written: either archive/agent_archive.py's or
\* archive/archive_manager.py's
InitLoaded ==
    /\ InitImpl
    /\ wc = [x \in {"f1"} |-> AgentSource]
    /\ InitSelect
    /\ InitController
    /\ InitPeer
    /\ InitFunc
    /\ \/ /\ \E p \in ArchivesAfter(MaxAgents) :
                  /\ agents = p.agents
                  /\ metadata_file = [state |-> "ok", agents |-> p.agents]
                  /\ agent_dirs = p.dirs
                  /\ now = p.now
           /\ uuid_n = MaxAgents
           /\ aa_ret = NoCall
           /\ InitManager
       \/ /\ \E p \in EntriesAfter(MaxAdds) :
                  /\ entries = p.entries
                  /\ index_json = [state |-> "ok", entries |-> p.entries]
                  /\ agent_files = p.files
                  /\ now = p.now
           /\ am_ret = NoCall
           /\ InitArchive

\* the while loop of get_lineage and get_agent_lineage: the records from
\* current_id up the parent links, until a link is None or names no record;
\* seen are the ids already walked
RECURSIVE WalkParents(_, _, _)
WalkParents(known, current_id, seen) ==
    IF current_id = None \/ current_id \notin DOMAIN known \/ current_id \in seen
    THEN <<>>
    ELSE <<known[current_id]>>
         \o WalkParents(known, known[current_id].parent_id, seen \cup {current_id})

\* the parent links from current_id lead back to a record already walked: the
\* while loop does not end
RECURSIVE WalkCycles(_, _, _)
WalkCycles(known, current_id, seen) ==
    IF current_id = None \/ current_id \notin DOMAIN known THEN FALSE
    ELSE IF current_id \in seen THEN TRUE
    ELSE WalkCycles(known, known[current_id].parent_id, seen \cup {current_id})

Reversed(seq) == [i \in 1..Len(seq) |-> seq[Len(seq) + 1 - i]]

\* agent_archive.py: AgentArchive.get_agent_lineage(agent_id)
get_agent_lineage(agent_id) ==
    /\ sel_pc = "idle"
    /\ sel_ret = NoQuery
    /\ DOMAIN agents # {}
    /\ sel_ret' = [op |-> "get_lineage", archive |-> "agent_archive",
                   agent_id |-> agent_id, n_parents |-> 0,
                   result |-> Reversed(WalkParents(agents, agent_id, {})),
                   raised |-> IF WalkCycles(agents, agent_id, {})
                              THEN "MemoryError" ELSE "none"]
    /\ UNCHANGED <<sel_pc, _combined_score>>
    /\ UNCHANGED <<now, implVars, archiveVars, managerVars, funcVars, peerVars, controllerVars>>

\* archive_manager.py: AgentArchive.get_lineage(agent_id)
get_lineage(agent_id) ==
    /\ sel_pc = "idle"
    /\ sel_ret = NoQuery
    /\ Len(entries) > 0
    /\ sel_ret' = [op |-> "get_lineage", archive |-> "archive_manager",
                   agent_id |-> agent_id, n_parents |-> 0,
                   result |-> WalkParents(EntriesById(entries), agent_id, {}),
                   raised |-> IF WalkCycles(EntriesById(entries), agent_id, {})
                              THEN "MemoryError" ELSE "none"]
    /\ UNCHANGED <<sel_pc, _combined_score>>
    /\ UNCHANGED <<now, implVars, archiveVars, managerVars, funcVars, peerVars, controllerVars>>

\* list(self.agents.values()): the records in dict order, which is the order
\* in which the ids were handed out
RECURSIVE Values(_)
Values(ags) ==
    IF DOMAIN ags = {} THEN <<>>
    ELSE LET first == CHOOSE x \in DOMAIN ags : \A y \in DOMAIN ags : x <= y
         IN <<ags[first]>> \o Values([x \in (DOMAIN ags) \ {first} |-> ags[x]])

\* sorted(seq, key=..., reverse=True), keys[i] being the key of seq[i]: the
\* sort is stable, records of equal key keep their order
StableDescending(seq, keys) ==
    LET Rank(i) == 1 + Cardinality({j \in 1..Len(seq) :
                                       \/ keys[j] > keys[i]
                                       \/ (keys[j] = keys[i] /\ j < i)})
    IN [r \in 1..Len(seq) |-> seq[CHOOSE i \in 1..Len(seq) : Rank(i) = r]]

\* seq[:n] for n >= 0
Take(seq, n) == SubSeq(seq, 1, IF n < Len(seq) THEN n ELSE Len(seq))

\* agent_archive.py: AgentArchive.get_valid_agents()
get_valid_agents(ags) ==
    KeepEntries(Values(ags), {x \in DOMAIN ags : ags[x].is_valid})

\* a variant that ranks the invalid agents too
TopAgents_with_invalid(ags, n) ==
    LET all == Values(ags)
    IN Take(StableDescending(all, [i \in 1..Len(all) |-> all[i].average_score]), n)

\* agent_archive.py: what AgentArchive.get_top_agents(n) returns
TopAgents(ags, n) ==
    LET valid == get_valid_agents(ags)
    IN Take(StableDescending(valid, [i \in 1..Len(valid) |-> valid[i].average_score]), n)

\* archive_manager.py: what AgentArchive.get_top_agents(n) returns
TopEntries(es, n) ==
    Take(StableDescending(es, [i \in 1..Len(es) |-> CombinedScore(es[i])]), n)

\* agent_archive.py: AgentArchive.get_top_agents(n)
get_top_agents(n) ==
    /\ sel_pc = "idle"
    /\ sel_ret = NoQuery
    /\ DOMAIN agents # {}
    /\ sel_ret' = [op |-> "get_top_agents", archive |-> "agent_archive",
                   agent_id |-> None, n_parents |-> n,
                   result |-> TopAgents(agents, n), raised |-> "none"]
    /\ UNCHANGED <<sel_pc, _combined_score>>
    /\ UNCHANGED <<now, implVars, archiveVars, managerVars, funcVars, peerVars, controllerVars>>

\* archive_manager.py: AgentArchive.get_top_agents(n)
GetTopAgents(n) ==
    /\ sel_pc = "idle"
    /\ sel_ret = NoQuery
    /\ Len(entries) > 0
    /\ sel_ret' = [op |-> "get_top_agents", archive |-> "archive_manager",
                   agent_id |-> None, n_parents |-> n,
                   result |-> TopEntries(entries, n), raised |-> "none"]
    /\ UNCHANGED <<sel_pc, _combined_score>>
    /\ UNCHANGED <<now, implVars, archiveVars, managerVars, funcVars, peerVars, controllerVars>>

Archives == {"agent_archive", "archive_manager"}

\* archive.get_all_agents(): the records of the archive handed to select, in
\* dict order
get_all_agents(archive) ==
    IF archive = "agent_archive" THEN Values(agents) ELSE entries

\* a record of the archive has the attribute: ArchivedAgent has average_score
\* and neither fitness_score nor novelty_score, ArchiveEntry has fitness_score
\* and novelty_score and no average_score
HasAttribute(archive, attribute) ==
    IF archive = "agent_archive"
    THEN attribute \in {"average_score"}
    ELSE attribute \in {"fitness_score", "novelty_score"}

\* a select call that is over: what it returned or raised
Selected(strategy, archive, n_parents, result, raised) ==
    [op |-> strategy, archive |-> archive, agent_id |-> None,
     n_parents |-> n_parents, result |-> result, raised |-> raised]

tournament_size == 3
fitness_weight == 7
novelty_weight == 3

\* FitnessProportionalSelection.select: random.choices draws n_parents
\* records with replacement, every record having a weight above 0; picks[i]
\* is the position of the i-th record drawn
FitnessProportionalSelection(archive, n_parents) ==
    /\ sel_pc = "idle"
    /\ sel_ret = NoQuery
    /\ LET all == get_all_agents(archive)
       IN IF Len(all) = 0
          THEN sel_ret' = Selected("fitness_proportional", archive, n_parents, <<>>, "none")
          ELSE IF ~HasAttribute(archive, "fitness_score")
          THEN sel_ret' = Selected("fitness_proportional", archive, n_parents, <<>>,
                                   "AttributeError")
          ELSE \E picks \in [1..n_parents -> 1..Len(all)] :
                   sel_ret' = Selected("fitness_proportional", archive, n_parents,
                                       [i \in 1..n_parents |-> all[picks[i]]], "none")
    /\ UNCHANGED <<sel_pc, _combined_score>>
    /\ UNCHANGED <<now, implVars, archiveVars, managerVars, funcVars, peerVars, controllerVars>>

\* the records that can win a tournament: max() gives the first record of
\* the highest fitness in the sample, and random.sample can put any
\* min(tournament_size, len) records in any order
Winners(all) ==
    LET size == IF tournament_size < Len(all) THEN tournament_size ELSE Len(all)
    IN {i \in 1..Len(all) :
           Cardinality({j \in 1..Len(all) :
                           j # i /\ all[j].fitness_score <= all[i].fitness_score})
               >= size - 1}

\* TournamentSelection.select: picks[i] is the position of the winner of the
\* i-th tournament
TournamentSelection(archive, n_parents) ==
    /\ sel_pc = "idle"
    /\ sel_ret = NoQuery
    /\ LET all == get_all_agents(archive)
       IN IF Len(all) = 0 \/ n_parents = 0
          THEN sel_ret' = Selected("tournament", archive, n_parents, <<>>, "none")
          ELSE IF ~HasAttribute(archive, "fitness_score")
          THEN sel_ret' = Selected("tournament", archive, n_parents, <<>>, "AttributeError")
          ELSE \E picks \in [1..n_parents -> Winners(all)] :
                   sel_ret' = Selected("tournament", archive, n_parents,
                                       [i \in 1..n_parents |-> all[picks[i]]], "none")
    /\ UNCHANGED <<sel_pc, _combined_score>>
    /\ UNCHANGED <<now, implVars, archiveVars, managerVars, funcVars, peerVars, controllerVars>>

\* a variant that ranks the agents of the agent_archive.py archive of the
\* process, whatever archive it is handed
EliteSelection_of_default_archive(archive, n_parents) ==
    /\ sel_pc = "idle"
    /\ sel_ret = NoQuery
    /\ sel_ret' = Selected("elite", archive, n_parents, TopAgents(agents, n_parents), "none")
    /\ UNCHANGED <<sel_pc, _combined_score>>
    /\ UNCHANGED <<now, implVars, archiveVars, managerVars, funcVars, peerVars, controllerVars>>

\* EliteSelection.select: archive.get_top_agents(n_parents)
EliteSelection(archive, n_parents) ==
    /\ sel_pc = "idle"
    /\ sel_ret = NoQuery
    /\ sel_ret' = Selected("elite", archive, n_parents,
                           IF archive = "agent_archive"
                           THEN TopAgents(agents, n_parents)
                           ELSE TopEntries(entries, n_parents),
                           "none")
    /\ UNCHANGED <<sel_pc, _combined_score>>
    /\ UNCHANGED <<now, implVars, archiveVars, managerVars, funcVars, peerVars, controllerVars>>

\* NoveltySelection.select
NoveltySelection(archive, n_parents) ==
    /\ sel_pc = "idle"
    /\ sel_ret = NoQuery
    /\ LET all == get_all_agents(archive)
       IN sel_ret' = IF Len(all) = 0
                     THEN Selected("novelty", archive, n_parents, <<>>, "none")
                     ELSE IF ~HasAttribute(archive, "novelty_score")
                     THEN Selected("novelty", archive, n_parents, <<>>, "AttributeError")
                     ELSE Selected("novelty", archive, n_parents,
                                   Take(StableDescending(all,
                                            [i \in 1..Len(all) |-> all[i].novelty_score]),
                                        n_parents),
                                   "none")
    /\ UNCHANGED <<sel_pc, _combined_score>>
    /\ UNCHANGED <<now, implVars, archiveVars, managerVars, funcVars, peerVars, controllerVars>>

\* HybridSelection.select up to the end of its first loop: every record of
\* the archive gets the attribute _combined_score
HybridSelection(archive, n_parents) ==
    /\ sel_pc = "idle"
    /\ sel_ret = NoQuery
    /\ LET all == get_all_agents(archive)
       IN IF Len(all) = 0
          THEN /\ sel_ret' = Selected("hybrid", archive, n_parents, <<>>, "none")
               /\ UNCHANGED <<sel_pc, _combined_score>>
          ELSE IF ~HasAttribute(archive, "average_score")
          THEN /\ sel_ret' = Selected("hybrid", archive, n_parents, <<>>, "AttributeError")
               /\ UNCHANGED <<sel_pc, _combined_score>>
          ELSE /\ sel_ret' = Selected("hybrid", archive, n_parents, <<>>, "none")
               /\ sel_pc' = "scored"
               /\ _combined_score' =
                      [x \in {all[i].agent_id : i \in 1..Len(all)} |->
                          fitness_weight * agents[x].average_score + novelty_weight * 0]
    /\ UNCHANGED <<now, implVars, archiveVars, managerVars, funcVars, peerVars, controllerVars>>

\* the rest of HybridSelection.select: sort by _combined_score, delete the
\* attribute from every record, return the first n_parents
HybridSelectionReturn ==
    /\ sel_pc = "scored"
    /\ LET all == get_all_agents(sel_ret.archive)
       IN sel_ret' = [sel_ret EXCEPT !.result =
                         Take(StableDescending(all,
                                  [i \in 1..Len(all) |-> _combined_score[all[i].agent_id]]),
                              sel_ret.n_parents)]
    /\ sel_pc' = "idle"
    /\ _combined_score' = NoAttributes
    /\ UNCHANGED <<now, implVars, archiveVars, managerVars, funcVars, peerVars, controllerVars>>

\* the caller has taken the result of the last call
Taken ==
    /\ sel_pc = "idle"
    /\ sel_ret # NoQuery
    /\ sel_ret' = NoQuery
    /\ UNCHANGED <<sel_pc, _combined_score>>
    /\ UNCHANGED <<now, implVars, archiveVars, managerVars, funcVars, peerVars, controllerVars>>

NextSelect ==
    \/ Taken
    \/ \E archive \in Archives, n_parents \in 0..MaxParents :
           FitnessProportionalSelection(archive, n_parents)
    \/ \E archive \in Archives, n_parents \in 0..MaxParents :
           TournamentSelection(archive, n_parents)
    \/ \E archive \in Archives, n_parents \in 0..MaxParents :
           EliteSelection(archive, n_parents)
    \/ \E archive \in Archives, n_parents \in 0..MaxParents :
           NoveltySelection(archive, n_parents)
    \/ \E archive \in Archives, n_parents \in 0..MaxParents :
           HybridSelection(archive, n_parents)
    \/ HybridSelectionReturn
    \/ \E agent_id \in (DOMAIN agents) \cup {UnknownId} : get_agent_lineage(agent_id)
    \/ \E agent_id \in Ids(entries) \cup {UnknownId} : get_lineage(agent_id)
    \/ \E n \in 0..MaxParents : get_top_agents(n)
    \/ \E n \in 0..MaxParents : GetTopAgents(n)

---------------------------------------------------------------------------
\* Calls of functions that keep no state

\* everything but the function call is at rest
InitAtRest ==
    /\ InitImpl
    /\ wc = [x \in {"f1"} |-> AgentSource]
    /\ now = 0
    /\ InitArchive
    /\ InitManager
    /\ InitSelect
    /\ InitController
    /\ InitPeer

---------------------------------------------------------------------------
\* archive/novelty_calculator.py

MaxValue == 2        \* largest count or length a characteristic takes

\* fractions as <<numerator, denominator>> in lowest terms
RECURSIVE GCD(_, _)
GCD(a, b) == IF b = 0 THEN a ELSE GCD(b, a % b)

Frac(n, d) == IF n = 0 THEN <<0, 1>> ELSE <<n \div GCD(n, d), d \div GCD(n, d)>>

FracAdd(x, y) == Frac(x[1] * y[2] + y[1] * x[2], x[2] * y[2])

Abs(x) == IF x < 0 THEN 0 - x ELSE x

\* what _extract_characteristics reads: the agent file (unreadable, text that
\* does not parse, or Python code) and the benchmark results (success_rate
\* and avg_score in tenths)
Unreadable == [kind |-> "unreadable"]
Unparsable(length) == [kind |-> "unparsable", code_length |-> length]
Parsed(num_functions, uses_recursion, import_modules) ==
    [kind |-> "parsed", num_functions |-> num_functions,
     uses_recursion |-> uses_recursion, import_modules |-> import_modules]

AgentFiles ==
    {Unreadable}
        \cup {Unparsable(n) : n \in 1..MaxValue}
        \cup {Parsed(n, r, ms) : n \in 0..MaxValue, r \in BOOLEAN, ms \in SUBSET {"os"}}

NoResults == [kind |-> "none"]
Results(success_rate, patterns) ==
    [kind |-> "results", success_rate |-> success_rate, avg_score |-> success_rate,
     benchmark_patterns |-> patterns]

BenchmarkResults ==
    {NoResults} \cup {Results(r, ps) : r \in {0, 10}, ps \in SUBSET {"passed:t1"}}

Merge(f, g) ==
    [x \in (DOMAIN f) \cup (DOMAIN g) |-> IF x \in DOMAIN f THEN f[x] ELSE g[x]]

\* _extract_characteristics: the AST counts, code patterns and imports of a
\* file that parses, code_length alone when reading or parsing raises
\* (0 when the file could not be read), and the benchmark characteristics
\* when there are benchmark results
_extract_characteristics(file, benchmark_results) ==
    LET code == IF file.kind = "parsed"
                THEN [num_functions |-> file.num_functions, num_classes |-> 0,
                      num_loops |-> 0, num_conditionals |-> 0,
                      uses_recursion |-> file.uses_recursion,
                      uses_comprehensions |-> FALSE, uses_generators |-> FALSE,
                      uses_decorators |-> FALSE,
                      num_imports |-> Cardinality(file.import_modules),
                      import_modules |-> file.import_modules]
                ELSE IF file.kind = "unparsable"
                THEN [code_length |-> file.code_length]
                ELSE [code_length |-> 0]
    IN IF benchmark_results.kind = "none" THEN code
       ELSE Merge(code, [success_rate |-> benchmark_results.success_rate,
                         avg_score |-> benchmark_results.avg_score,
                         benchmark_patterns |-> benchmark_results.benchmark_patterns])

numeric_features ==
    <<"num_functions", "num_classes", "num_loops", "num_conditionals",
      "num_imports", "code_length", "success_rate", "avg_score">>

boolean_features ==
    <<"uses_recursion", "uses_comprehensions", "uses_generators", "uses_decorators">>

NoDistance == [distance |-> <<0, 1>>, num_features |-> 0]

More(acc, diff) ==
    [distance |-> FracAdd(acc.distance, diff), num_features |-> acc.num_features + 1]

Both(chars1, chars2, feature) ==
    feature \in DOMAIN chars1 /\ feature \in DOMAIN chars2

\* the loop over numeric_features, from the i-th feature on
RECURSIVE NumericLoop(_, _, _, _)
NumericLoop(chars1, chars2, i, acc) ==
    IF i > Len(numeric_features) THEN acc
    ELSE LET feature == numeric_features[i]
         IN IF Both(chars1, chars2, feature) /\ chars1[feature] + chars2[feature] > 0
            THEN NumericLoop(chars1, chars2, i + 1,
                     More(acc, Frac(Abs(chars1[feature] - chars2[feature]),
                                    chars1[feature] + chars2[feature])))
            ELSE NumericLoop(chars1, chars2, i + 1, acc)

\* the loop over boolean_features, from the i-th feature on
RECURSIVE BooleanLoop(_, _, _, _)
BooleanLoop(chars1, chars2, i, acc) ==
    IF i > Len(boolean_features) THEN acc
    ELSE LET feature == boolean_features[i]
         IN IF Both(chars1, chars2, feature)
            THEN BooleanLoop(chars1, chars2, i + 1,
                     More(acc, IF chars1[feature] # chars2[feature]
                               THEN <<1, 1>> ELSE <<0, 1>>))
            ELSE BooleanLoop(chars1, chars2, i + 1, acc)

\* 1 - len(set1 & set2) / len(set1 | set2) for a set feature both have and
\* that is not empty in both
SetFeature(chars1, chars2, feature, acc) ==
    IF Both(chars1, chars2, feature) /\ (chars1[feature] \cup chars2[feature]) # {}
    THEN More(acc, Frac(Cardinality(chars1[feature] \cup chars2[feature])
                            - Cardinality(chars1[feature] \cap chars2[feature]),
                        Cardinality(chars1[feature] \cup chars2[feature])))
    ELSE acc

\* NoveltyCalculator._calculate_distance
_calculate_distance(chars1, chars2) ==
    LET numeric == NumericLoop(chars1, chars2, 1, NoDistance)
        boolean == BooleanLoop(chars1, chars2, 1, numeric)
        imports == SetFeature(chars1, chars2, "import_modules", boolean)
        all == SetFeature(chars1, chars2, "benchmark_patterns", imports)
    IN IF all.num_features > 0
       THEN Frac(all.distance[1], all.distance[2] * all.num_features)
       ELSE <<1, 2>>

InitDistance ==
    /\ InitAtRest
    /\ \E f1, f2 \in AgentFiles, r1, r2 \in BenchmarkResults :
           fn_args = [op |-> "_calculate_distance",
                      chars1 |-> _extract_characteristics(f1, r1),
                      chars2 |-> _extract_characteristics(f2, r2)]
    /\ fn_ret = NotCalled

CalculateDistance ==
    /\ fn_args.op = "_calculate_distance"
    /\ ~fn_ret.called
    /\ fn_ret' = Called(_calculate_distance(fn_args.chars1, fn_args.chars2))
    /\ UNCHANGED fn_args
    /\ UNCHANGED <<now, implVars, archiveVars, managerVars, selectVars, peerVars, controllerVars>>

SpecDistance == InitDistance /\ [][CalculateDistance]_vars

---------------------------------------------------------------------------
\* self_modification/modification_proposal.py

MaxIssues == 2       \* longest diagnosis.code_structure_issues
MaxHints == 1        \* longest target_improvements

max_changes_per_proposal == 5

improvement_strategies ==
    {"tool_integration", "error_handling", "performance_optimization", "code_structure"}

\* a DiagnosisReport: overall_score in tenths, whether the lists
\* tool_usage_issues, error_handling_issues and timeout_patterns have an
\* element, and code_structure_issues, each issue given by whether its text
\* contains 'empty'
DiagnosisReports ==
    [overall_score : {3, 8},
     tool_usage_issues : BOOLEAN,
     error_handling_issues : BOOLEAN,
     timeout_patterns : BOOLEAN,
     code_structure_issues : UNION {[1..n -> {"empty", "other"}] : n \in 0..MaxIssues}]

TargetImprovements ==
    UNION {[1..n -> improvement_strategies \cup {"prompt_optimization"}] : n \in 0..MaxHints}

\* the loop that removes duplicates while preserving order
RECURSIVE Unique(_, _)
Unique(priorities, seen) ==
    IF Len(priorities) = 0 THEN <<>>
    ELSE IF Head(priorities) \in seen THEN Unique(Tail(priorities), seen)
    ELSE <<Head(priorities)>> \o Unique(Tail(priorities), seen \cup {Head(priorities)})

If(cond, improvement_type) == IF cond THEN <<improvement_type>> ELSE <<>>

_prioritize_improvements(diagnosis, target_improvements) ==
    LET critical ==
            IF diagnosis.overall_score <= 5
            THEN If(diagnosis.tool_usage_issues, "tool_integration")
                     \o If(diagnosis.error_handling_issues, "error_handling")
            ELSE <<>>
        priorities ==
            target_improvements
                \o critical
                \o If(diagnosis.timeout_patterns, "performance_optimization")
                \o If(Len(diagnosis.code_structure_issues) > 0, "code_structure")
    IN Take(Unique(priorities, {}), 4)

Change(change_type, location, new_code, priority) ==
    CodeChange("agent/agent.py", change_type, location, NoCode, new_code, priority)

_propose_tool_integration(diagnosis, priority) ==
    <<Change("add", "imports", <<"a">>, priority),
      Change("add", "__init__", <<"sp", "b">>, priority)>>

_propose_error_handling(diagnosis, priority) ==
    <<Change("modify", "execute_task", NoCode, priority)>>

_propose_performance_optimization(diagnosis, priority) ==
    <<Change("modify", "none", NoCode, priority)>>

\* one change for every issue whose text contains 'empty'
RECURSIVE _propose_code_structure_improvements(_, _)
_propose_code_structure_improvements(issues, priority) ==
    IF Len(issues) = 0 THEN <<>>
    ELSE (IF Head(issues) = "empty"
          THEN <<Change("modify", "none", NoCode, priority)>> ELSE <<>>)
             \o _propose_code_structure_improvements(Tail(issues), priority)

_generate_code_changes(improvement_type, diagnosis, priority) ==
    CASE improvement_type = "tool_integration" ->
             _propose_tool_integration(diagnosis, priority)
      [] improvement_type = "error_handling" ->
             _propose_error_handling(diagnosis, priority)
      [] improvement_type = "performance_optimization" ->
             _propose_performance_optimization(diagnosis, priority)
      [] improvement_type = "code_structure" ->
             _propose_code_structure_improvements(diagnosis.code_structure_issues, priority)
      [] OTHER -> <<>>

\* the loop of generate_proposal over enumerate(priorities, 1), from the
\* priority_num-th improvement type on
RECURSIVE CodeChanges(_, _, _)
CodeChanges(priorities, priority_num, diagnosis) ==
    IF priority_num > Len(priorities) THEN <<>>
    ELSE (IF priorities[priority_num] \in improvement_strategies
          THEN _generate_code_changes(priorities[priority_num], diagnosis, priority_num)
          ELSE <<>>)
             \o CodeChanges(priorities, priority_num + 1, diagnosis)

\* ModificationProposer.generate_proposal: the code_changes of the proposal
generate_proposal(diagnosis, target_improvements) ==
    CodeChanges(Take(_prioritize_improvements(diagnosis, target_improvements),
                     max_changes_per_proposal),
                1, diagnosis)

InitPropose ==
    /\ InitAtRest
    /\ \E diagnosis \in DiagnosisReports, target_improvements \in TargetImprovements :
           fn_args = [op |-> "generate_proposal", diagnosis |-> diagnosis,
                      target_improvements |-> target_improvements]
    /\ fn_ret = NotCalled

GenerateProposal ==
    /\ fn_args.op = "generate_proposal"
    /\ ~fn_ret.called
    /\ fn_ret' = Called(generate_proposal(fn_args.diagnosis, fn_args.target_improvements))
    /\ UNCHANGED fn_args
    /\ UNCHANGED <<now, implVars, archiveVars, managerVars, selectVars, peerVars, controllerVars>>

SpecPropose == InitPropose /\ [][GenerateProposal]_vars

---------------------------------------------------------------------------
\* ImplementationManager._apply_add_change on its own

\* what the file of an 'add' change holds before the change: nothing, a
\* comment, one statement, a docstring and a statement, a blank line, a byte
\* that does not decode, an __init__ that ends the file, an __init__ with a
\* body that ends the file, an __init__ followed by another block
FileContents ==
    { <<>>, <<"#">>, <<"a">>, AgentSource, <<"sp">>, <<"bad">>,
      <<"init">>, <<"a", "nl", "init">>, <<"init", "nl", "sp", "a">>,
      <<"init", "nl", "b">> }

WorkingCopies == {NoFiles} \cup {[x \in {"f1"} |-> content] : content \in FileContents}

AddChanges ==
    { CodeChange("f1", "add", location, NoCode, new_code, 1) :
          location \in {"imports", "__init__", "class_methods", "none"},
          new_code \in {NoCode, <<"c">>, <<"sp", "c">>} }

InitAdd ==
    /\ InitAtRest
    /\ \E fs \in WorkingCopies, change \in AddChanges :
           fn_args = [op |-> "_apply_add_change", fs |-> fs, change |-> change]
    /\ fn_ret = NotCalled

ApplyAddChange ==
    /\ fn_args.op = "_apply_add_change"
    /\ ~fn_ret.called
    /\ fn_ret' = Called(_apply_add_change(fn_args.fs, fn_args.change))
    /\ UNCHANGED fn_args
    /\ UNCHANGED <<now, implVars, archiveVars, managerVars, selectVars, peerVars, controllerVars>>

SpecAdd == InitAdd /\ [][ApplyAddChange]_vars

---------------------------------------------------------------------------
\* Two processes, each with its own AgentArchive (archive/agent_archive.py)
\* on one archive directory.  Each call of add_agent runs to its end before
\* the other process runs; every write of the metadata file succeeds.

\* add_agent in the second process
PeerAddAgent(agent_path, parent_id, benchmark_scores, is_valid, time) ==
    /\ uuid_n < MaxAgents
    /\ now' = time
    /\ LET agent_id == uuid_n + 1
           generation == Generation(parent_id, peer_agents)
           agent == ArchivedAgent(agent_id, parent_id, generation, agent_id, time,
                                  benchmark_scores, AverageScore(benchmark_scores),
                                  is_valid)
           added == [x \in (DOMAIN peer_agents) \cup {agent_id} |->
                        IF x = agent_id THEN agent ELSE peer_agents[x]]
       IN /\ uuid_n' = agent_id
          /\ agent_dirs' = IF agent_path # "missing"
                           THEN [x \in (DOMAIN agent_dirs) \cup {agent_id} |->
                                    IF x = agent_id THEN agent_path ELSE agent_dirs[x]]
                           ELSE agent_dirs
          /\ peer_agents' = added
          /\ metadata_file' = _save_archive(metadata_file, added, "written")
          /\ aa_ret' = [calls |-> aa_ret.calls + 1, parent_id |-> parent_id,
                        agent_id |-> agent_id, raised |-> "none",
                        fitness_score |-> 0, novelty_score |-> 0]
    /\ UNCHANGED agents
    /\ UNCHANGED <<implVars, managerVars, selectVars, funcVars, controllerVars>>

\* the second process starts anew: __init__ and _load_archive
PeerLoadArchive ==
    /\ peer_agents' = IF metadata_file.state = "ok" THEN metadata_file.agents ELSE NoAgents
    /\ peer_agents' # peer_agents
    /\ UNCHANGED <<now, implVars, archiveVars, managerVars, selectVars, funcVars, controllerVars>>

NextParallel ==
    \/ \E a \in EvaluatedAgents, parent_id \in (DOMAIN agents) \cup {None},
          time \in Readings :
           add_agent(a.agent_path, parent_id, a.benchmark_scores, a.is_valid, time, "written")
    \/ \E a \in EvaluatedAgents, parent_id \in (DOMAIN peer_agents) \cup {None},
          time \in Readings :
           PeerAddAgent(a.agent_path, parent_id, a.benchmark_scores, a.is_valid, time)
    \/ _load_archive
    \/ PeerLoadArchive

\* both processes have started on an empty directory
InitParallel ==
    /\ InitAtRest
    /\ InitFunc

SpecParallel == InitParallel /\ [][NextParallel]_vars

---------------------------------------------------------------------------
\* dgm_controller.py: DGMController.run on an archive/agent_archive.py
\* archive, with HybridSelection as the strategy of the parent selector

MaxGenerations == 2  \* the num_generations run is called with

Configs == [stop_on_error : BOOLEAN, enabled : SUBSET {"b1", "b2"}]

\* what running one benchmark gives: a score in tenths, or an exception
BenchmarkRaised == 0 - 1
BenchmarkOutcomes == {0, 8, BenchmarkRaised}

\* _evaluate_agent: a benchmark whose run raises is logged and scored 0.0
_evaluate_agent(agent_path, outcomes) ==
    [agent_path |-> agent_path,
     scores |-> [b \in DOMAIN outcomes |->
                    IF outcomes[b] = BenchmarkRaised THEN 0 ELSE outcomes[b]],
     failed |-> {b \in DOMAIN outcomes : outcomes[b] = BenchmarkRaised}]

\* run finds the archive empty: _initialize_base_agent validates and
\* evaluates the base agent and adds it to the archive, whatever its scores;
\* a base agent that is not valid raises ValueError out of run
_initialize_base_agent(valid, outcomes, time, saved) ==
    /\ ctl_pc = "start"
    /\ DOMAIN agents = {}
    /\ DOMAIN outcomes = config.enabled
    /\ uuid_n < MaxAgents
    /\ IF ~valid
       THEN /\ ctl_pc' = "raised"
            /\ UNCHANGED <<now, archiveVars, evaluation>>
       ELSE LET result == _evaluate_agent("agentA", outcomes)
                agent_id == uuid_n + 1
                added == Archived(agents, agent_id,
                                  Evaluated("agentA", result.scores, TRUE), None, time)
            IN /\ evaluation' = result
               /\ now' = time
               /\ uuid_n' = agent_id
               /\ agent_dirs' = [x \in (DOMAIN agent_dirs) \cup {agent_id} |->
                                    IF x = agent_id THEN "agentA" ELSE agent_dirs[x]]
               /\ agents' = added
               /\ metadata_file' = _save_archive(metadata_file, added, saved)
               /\ aa_ret' = [calls |-> aa_ret.calls + 1, parent_id |-> None,
                             agent_id |-> agent_id, raised |-> "none",
                             fitness_score |-> 0, novelty_score |-> 0]
               /\ ctl_pc' = "loop"
    /\ UNCHANGED <<config, self_generation, gen_log>>
    /\ UNCHANGED <<implVars, managerVars, selectVars, funcVars, peerVars>>

\* run finds agents in the archive and goes to the loop
RunLoaded ==
    /\ ctl_pc = "start"
    /\ DOMAIN agents # {}
    /\ ctl_pc' = "loop"
    /\ UNCHANGED <<config, self_generation, evaluation, gen_log>>
    /\ UNCHANGED <<now, implVars, archiveVars, managerVars, selectVars, funcVars, peerVars>>

\* HybridSelection.select(archive, 1) from call to return
SelectParents(ags) ==
    LET all == Values(ags)
    IN Take(StableDescending(all, [i \in 1..Len(all) |->
                fitness_weight * all[i].average_score + novelty_weight * 0]), 1)

\* a variant in which run has no handler around _run_generation
AfterError_unhandled(stop_on_error) == "raised"

\* the except clause of the loop: the error is logged; the loop goes on
\* unless the configuration has stop_on_error
AfterError(stop_on_error) == IF stop_on_error THEN "stopped" ELSE "loop"

\* one pass of the while loop: _run_generation selects a parent, has it
\* modify itself (modified tells whether that gave a modified agent) and
\* calls self.validator.validate_agent(path, run_functional_tests=True);
\* AgentValidator.validate_agent of evaluation/agent_validator.py takes no
\* such argument, the call raises TypeError, and the handler in run takes
\* over
_run_generation(modified) ==
    /\ ctl_pc = "loop"
    /\ self_generation < MaxGenerations
    /\ self_generation' = self_generation + 1
    /\ LET parents == SelectParents(agents)
       IN IF Len(parents) = 0
          THEN /\ gen_log' = [parent |-> None, outcome |-> "no parent", raised |-> "none"]
               /\ UNCHANGED ctl_pc
          ELSE IF ~modified
          THEN /\ gen_log' = [parent |-> parents[1].agent_id,
                              outcome |-> "self-modification failed", raised |-> "none"]
               /\ UNCHANGED ctl_pc
          ELSE /\ gen_log' = [parent |-> parents[1].agent_id,
                              outcome |-> "error", raised |-> "TypeError"]
               /\ ctl_pc' = AfterError(config.stop_on_error)
    /\ UNCHANGED <<config, evaluation>>
    /\ UNCHANGED <<now, implVars, archiveVars, managerVars, selectVars, funcVars, peerVars>>

\* the while test fails after num_generations passes: the final report
RunEnds ==
    /\ ctl_pc = "loop"
    /\ self_generation = MaxGenerations
    /\ ctl_pc' = "stopped"
    /\ UNCHANGED <<config, self_generation, evaluation, gen_log>>
    /\ UNCHANGED <<now, implVars, archiveVars, managerVars, selectVars, funcVars, peerVars>>

NextController ==
    \/ \E valid \in BOOLEAN, outcomes \in [config.enabled -> BenchmarkOutcomes],
          time \in Readings, saved \in SaveOutcomes :
           _initialize_base_agent(valid, outcomes, time, saved)
    \/ RunLoaded
    \/ \E modified \in BOOLEAN : _run_generation(modified)
    \/ RunEnds

\* a controller built on an archive directory that is empty or that an
\* earlier run has written one agent to
InitRun ==
    /\ InitImpl
    /\ wc = [x \in {"f1"} |-> AgentSource]
    /\ InitManager
    /\ InitSelect
    /\ InitFunc
    /\ InitPeer
    /\ config \in Configs
    /\ ctl_pc = "start"
    /\ self_generation = 0
    /\ evaluation = NoEvaluation
    /\ gen_log = NoGeneration
    /\ aa_ret = NoCall
    /\ \E k \in 0..1 : \E p \in ArchivesAfter(k) :
           /\ agents = p.agents
           /\ metadata_file = IF k = 0 THEN NoMetadataFile
                              ELSE [state |-> "ok", agents |-> p.agents]
           /\ agent_dirs = p.dirs
           /\ now = p.now
           /\ uuid_n = k

SpecController == InitRun /\ [][NextController]_vars

---------------------------------------------------------------------------
\* The specifications: the modification step, the two archives, selection

Init ==
    /\ InitImpl
    /\ now = 0
    /\ InitArchive
    /\ InitManager
    /\ InitSelect
    /\ InitController
    /\ InitPeer
    /\ InitFunc

SpecImpl == Init /\ [][NextImpl]_vars

\* the archives are exercised next to one working copy
InitArchives ==
    /\ Init
    /\ wc = [x \in {"f1"} |-> AgentSource]

SpecArchive == InitArchives /\ [][NextArchive]_vars

SpecManager == InitArchives /\ [][NextManager]_vars

SpecSelect == InitLoaded /\ [][NextSelect]_vars

---------------------------------------------------------------------------
\* Properties of ImplementationManager (checked under SpecImpl)

Returned == pc = "done" /\ ~dry_run

AllChangesApplied ==
    /\ Len(outcome) = Len(proposal)
    /\ \A i \in 1..Len(outcome) : outcome[i] = "ok"

\* C1: when a non-dry-run implement_proposal returns, the working copy is
\* either identical to its state before the call, or every change of the
\* proposal was applied and verification passed; never a partial mix.
C1_AllOrNothing ==
    Returned =>
        \/ wc = wc0
        \/ /\ AllChangesApplied
           /\ results.success
           /\ results.verification.ran /\ results.verification.valid

\* C2: a non-dry-run call with one 'modify' change whose old_code does not
\* occur in the (existing) target file returns success = false and leaves
\* the target file's content as it was.
C2_AbsentOldCodeFails ==
    ( /\ Returned
      /\ results.backup_path # NoBackup
      /\ Len(proposal) = 1
      /\ proposal[1].change_type = "modify"
      /\ proposal[1].file_path \in DOMAIN wc0
      /\ ~Contains(wc0[proposal[1].file_path], proposal[1].old_code) )
    => /\ results.success = FALSE
       /\ proposal[1].file_path \in DOMAIN wc
       /\ wc[proposal[1].file_path] = wc0[proposal[1].file_path]

\* C3: in a non-dry-run call, as soon as one change fails to apply (it
\* returns False or raises) the backup is restored and the call is over with
\* success = false: no later change of the proposal is attempted.
C3_AbortOnFirstFailure ==
    (pc \in {"apply", "done"} /\ ~dry_run) =>
        \A i \in 1..Len(outcome) :
            outcome[i] # "ok" =>
                /\ i = Len(outcome)
                /\ pc = "done"
                /\ results.success = FALSE
                /\ wc = wc0

\* C4 as stated: a non-dry-run call returns success = true only if every
\* source file of the working copy parses.
C4_SuccessOnlyIfAllParse ==
    (Returned /\ results.success) =>
        \A f \in DOMAIN wc : ParseFile(wc[f]) = "ok"

\* C4 as amended: a non-dry-run call returns success = true only if no
\* source file of the working copy raises SyntaxError when parsed (a file
\* whose reading or parsing fails in another way is only a warning); when
\* verification finds a SyntaxError after all changes went through the loop,
\* the working copy is restored from the backup of this call and
\* success = false.
C4_SuccessOnlyIfNoSyntaxError ==
    Returned =>
        /\ results.success =>
               /\ results.verification.ran
               /\ \A f \in DOMAIN wc : ParseFile(wc[f]) # "syntax"
        /\ (results.verification.ran /\ ~results.verification.valid) =>
               /\ results.success = FALSE
               /\ rolled_from = results.backup_path
               /\ wc = wc0

C4_Witness ==
    /\ Returned
    /\ results.verification.ran
    /\ ~results.verification.valid
    /\ Len(results.changes_applied) > 0
    /\ wc = wc0

\* C5: every rollback of implement_proposal leaves the working copy with
\* exactly the files and contents it had when the call was entered.
C5_RollbackRestoresEntryState ==
    (pc = "done" /\ rolled_from # NoBackup) => wc = wc0

\* C6: every backup is released: once the attempts made so far are over and
\* the manager holds no backup any more (cleanup() has run), no backup
\* directory of any attempt is left on disk.
C6_NoBackupLeft ==
    (pc = "idle" /\ backup_dir = NoBackup) => DOMAIN backups = {}

\* C7: a dry-run call changes no file of the working copy and creates no
\* backup (backup_path stays None); a 'modify' or 'delete' change whose
\* target file does not exist is judged infeasible (False) and is not among
\* the changes reported as applied.
DryRunStep == dry_run' /\ (pc = "apply" \/ pc' = "apply")

C7_DryRunFrame ==
    [][ DryRunStep =>
          /\ wc' = wc
          /\ backups' = backups
          /\ backup_dir' = backup_dir
          /\ mkdtemp_n' = mkdtemp_n
          /\ results'.backup_path = NoBackup
          /\ \A i \in 1..Len(outcome') :
                 ( /\ proposal'[i].change_type \in {"modify", "delete"}
                   /\ proposal'[i].file_path \notin DOMAIN wc' )
                 => outcome'[i] = "false"
          /\ Len(results'.changes_applied) =
                 Cardinality({i \in 1..Len(outcome') : outcome'[i] = "ok"})
          /\ \A k \in 1..Len(results'.changes_applied) :
                 results'.changes_applied[k].type \in {"modify", "delete"}
                 => results'.changes_applied[k].file \in DOMAIN wc'
      ]_vars

C7_Witness ==
    /\ pc = "done"
    /\ dry_run
    /\ results.success
    /\ \E i \in 1..Len(outcome) :
           /\ proposal[i].change_type \in {"modify", "delete"}
           /\ proposal[i].file_path \notin DOMAIN wc
           /\ outcome[i] = "false"
    /\ \E i \in 1..Len(outcome) : outcome[i] = "ok"

---------------------------------------------------------------------------
\* The archives

\* an add_agent call of archive/agent_archive.py has just returned or raised
AddAgentCalled == aa_ret'.calls = aa_ret.calls + 1

\* an add_agent call of archive/archive_manager.py has just returned or raised
ManagerAddAgentCalled == am_ret'.calls = am_ret.calls + 1

\* C8: add_agent called with a parent_id that is not the id of a record
\* currently in the archive fails with a ValidationError, and the call
\* changes neither the in-memory archive, nor the index on disk, nor the
\* agent directories.
C8_UnknownParentRejected ==
    [][ (/\ AddAgentCalled
         /\ aa_ret'.parent_id # None
         /\ aa_ret'.parent_id \notin DOMAIN agents)
        => /\ aa_ret'.raised = "ValidationError"
           /\ agents' = agents
           /\ metadata_file' = metadata_file
           /\ agent_dirs' = agent_dirs
      ]_vars

\* C9: in every reachable archive state each record's generation is 0 when
\* it has no parent, and otherwise its parent is a record of the archive and
\* its generation is the parent's generation plus one.
C9_GenerationCountsParentEdges ==
    \A i \in 1..Len(entries) :
        IF entries[i].parent_id = None
        THEN entries[i].generation = 0
        ELSE /\ entries[i].parent_id \in Ids(entries)
             /\ entries[i].generation
                    = Entry(entries, entries[i].parent_id).generation + 1

\* C10: every add_agent call assigns an id that is not the id of a record
\* already in the archive, and leaves every record that stays in the archive,
\* and its code snapshot, as they were.
C10_FreshIdNoOverwrite ==
    [][ (ManagerAddAgentCalled /\ am_ret'.agent_id # None)
        => /\ am_ret'.agent_id \notin Ids(entries)
           /\ \A x \in Ids(entries) \cap Ids(entries') :
                  /\ Entry(entries', x) = Entry(entries, x)
                  /\ agent_files'[x] = agent_files[x]
      ]_vars

\* the record an add_agent call of archive/archive_manager.py has just made
AddedEntry ==
    ArchiveEntry(am_ret'.agent_id, am_ret'.agent_id, am_ret'.parent_id,
                 Generation(am_ret'.parent_id, EntriesById(entries)),
                 am_ret'.fitness_score, am_ret'.novelty_score, now')

BeforeEviction == SetEntry(entries, AddedEntry)

\* C13: when the archive holds more than max_size records, the eviction run
\* leaves exactly max_size of them, and no record it removes has a combined
\* score (fitness + novelty) strictly greater than that of a record it keeps.
C13_KeepsHighestCombined ==
    [][ (/\ ManagerAddAgentCalled
         /\ am_ret'.agent_id # None
         /\ Len(BeforeEviction) > max_size)
        => /\ Len(entries') = max_size
           /\ \A k \in 1..Len(entries') :
                  \E i \in 1..Len(BeforeEviction) : BeforeEviction[i] = entries'[k]
           /\ \A i \in 1..Len(BeforeEviction) :
                  BeforeEviction[i].agent_id \notin Ids(entries')
                  => \A k \in 1..Len(entries') :
                         CombinedScore(BeforeEviction[i]) <= CombinedScore(entries'[k])
      ]_vars

\* an eviction run has removed an older record of a lower combined score and
\* kept the record just added (the index on disk, whose write failed, still
\* lists the record removed)
C13_Witness ==
    /\ am_ret.calls > max_size
    /\ am_ret.agent_id \in Ids(entries)
    /\ Len(entries) = max_size
    /\ \E x \in DOMAIN index_json.entries :
           /\ index_json.entries[x].agent_id \notin Ids(entries)
           /\ CombinedScore(index_json.entries[x])
                  < CombinedScore(Entry(entries, am_ret.agent_id))

\* C14: the index on disk is always consistent with the agent snapshots on
\* disk: an agent removed by eviction has both its index entry and its
\* snapshot removed, or neither, so every agent the index lists has its
\* snapshot.
C14_IndexMatchesSnapshots ==
    index_json.state = "ok"
    => \A i \in 1..Len(index_json.entries) :
           index_json.entries[i].agent_id \in DOMAIN agent_files

\* C15: add_agent never leaves a half-written index on disk: the index file
\* read after the call, however the call ended, is the complete index from
\* before the call or the complete index with the new record.
C15_IndexWrittenWhole ==
    [][ AddAgentCalled
        => \/ metadata_file' = metadata_file
           \/ metadata_file' = [state |-> "ok", agents |-> agents']
      ]_vars

\* the agents a fresh AgentArchive on the same directory would hold
Reloaded == IF metadata_file.state = "ok" THEN metadata_file.agents ELSE NoAgents

\* C16: after any sequence of add_agent calls, loading the persisted archive
\* into a fresh AgentArchive gives the same set of agent ids, each with the
\* same scores and the same parent_id as in the instance that added them.
C16_ReloadGivesSameArchive ==
    aa_ret.calls > 0
    => /\ DOMAIN Reloaded = DOMAIN agents
       /\ \A x \in DOMAIN agents :
              /\ Reloaded[x].benchmark_scores = agents[x].benchmark_scores
              /\ Reloaded[x].average_score = agents[x].average_score
              /\ Reloaded[x].parent_id = agents[x].parent_id

---------------------------------------------------------------------------
\* Queries and selection (checked under SpecSelect)

\* C11: get_lineage(id) returns the chain of records from the root ancestor
\* down to the given agent, root first and the given agent last; when a
\* referenced parent is missing it returns the partial chain found so far
\* instead of failing.
C11_LineageRootFirst ==
    sel_ret.op = "get_lineage"
    => LET r == sel_ret.result
       IN /\ sel_ret.raised = "none"
          /\ (sel_ret.agent_id \in (DOMAIN agents) \cup Ids(entries))
             => (Len(r) >= 1 /\ r[Len(r)].agent_id = sel_ret.agent_id)
          /\ \A i \in 1..(Len(r) - 1) : r[i + 1].parent_id = r[i].agent_id

\* the key get_top_agents sorts the records of an archive by, and the time a
\* record was made
KeyOf(rec, archive) ==
    IF archive = "agent_archive" THEN rec.average_score ELSE CombinedScore(rec)

CreatedAt(rec, archive) ==
    IF archive = "agent_archive" THEN rec.created_at ELSE rec.timestamp

ArchiveSize(archive) ==
    IF archive = "agent_archive" THEN Cardinality(DOMAIN agents) ELSE Len(entries)

\* the result of the last call is in descending order of the key and, among
\* records of equal key, the one made earlier comes first
SortedByKey ==
    \A i, j \in 1..Len(sel_ret.result) :
        i < j => LET a == sel_ret.result[i]
                     b == sel_ret.result[j]
                 IN \/ KeyOf(a, sel_ret.archive) > KeyOf(b, sel_ret.archive)
                    \/ /\ KeyOf(a, sel_ret.archive) = KeyOf(b, sel_ret.archive)
                       /\ CreatedAt(a, sel_ret.archive) <= CreatedAt(b, sel_ret.archive)

Smaller(a, b) == IF a < b THEN a ELSE b

Ranked(archive) ==
    IF archive = "agent_archive"
    THEN {agents[x] : x \in {y \in DOMAIN agents : agents[y].is_valid}}
    ELSE {entries[i] : i \in 1..Len(entries)}

Strategies == {"fitness_proportional", "tournament", "elite", "novelty", "hybrid"}

\* the records of an archive
RecordsOf(archive) ==
    IF archive = "agent_archive"
    THEN {agents[x] : x \in DOMAIN agents}
    ELSE {entries[i] : i \in 1..Len(entries)}

\* C18: each of the five selection strategies returns only records of the
\* archive it was handed (so only ids that are members of that archive), and
\* returns the empty list when the archive is empty.
C18_SelectsMembers ==
    sel_ret.op \in Strategies
    => /\ \A i \in 1..Len(sel_ret.result) :
              /\ sel_ret.result[i] \in RecordsOf(sel_ret.archive)
              /\ sel_ret.result[i].agent_id
                     \in {r.agent_id : r \in RecordsOf(sel_ret.archive)}
       /\ RecordsOf(sel_ret.archive) = {}
          => (sel_ret.result = <<>> /\ sel_ret.raised = "none")

\* a strategy that samples with replacement has returned the same record of
\* the archive twice
C18_Witness ==
    /\ sel_ret.op \in {"fitness_proportional", "tournament"}
    /\ Len(sel_ret.result) = 2
    /\ sel_ret.result[1] = sel_ret.result[2]
    /\ Cardinality(RecordsOf(sel_ret.archive)) = 2

\* C19: select of every strategy is pure with respect to the archive: no step
\* of a selection adds, removes or reorders a record or changes a field of a
\* record, so that another reader of the archive sees the same records with
\* the same attributes at every point of the call.
C19_SelectIsPure ==
    [][/\ agents' = agents
       /\ entries' = entries
       /\ _combined_score' = _combined_score]_vars

\* the score Elite is said to rank by: average_score of an agent_archive.py
\* record, fitness_score of an archive_manager.py record (its novelty_score
\* left out)
ScoreOf(rec, archive) ==
    IF archive = "agent_archive" THEN rec.average_score ELSE rec.fitness_score

\* C20: Elite.select(archive, n) returns min(n, archive size) different
\* records of the archive, none left out has a higher score than one
\* returned, and the result is in descending order of the score, whatever
\* the novelty scores of the records are.
C20_EliteTopByScore ==
    sel_ret.op = "elite"
    => LET r == sel_ret.result
           all == RecordsOf(sel_ret.archive)
           returned == {r[i] : i \in 1..Len(r)}
       IN /\ Len(r) = Smaller(sel_ret.n_parents, ArchiveSize(sel_ret.archive))
          /\ Cardinality(returned) = Len(r)
          /\ returned \subseteq all
          /\ \A a \in all \ returned, b \in returned :
                 ScoreOf(a, sel_ret.archive) <= ScoreOf(b, sel_ret.archive)
          /\ \A i, j \in 1..Len(r) :
                 i < j => ScoreOf(r[i], sel_ret.archive) >= ScoreOf(r[j], sel_ret.archive)

\* the value Hybrid is said to rank by: the weighted sum of the score and the
\* novelty_score of a record (an agent_archive.py record has no novelty_score)
HybridValue(rec, archive) ==
    fitness_weight * ScoreOf(rec, archive)
        + novelty_weight * (IF archive = "agent_archive" THEN 0 ELSE rec.novelty_score)

\* C21: Hybrid(wf, wn).select(archive, n) returns min(n, archive size)
\* different records of the archive, none left out has a higher value of
\* wf * score + wn * novelty_score than one returned, and the result is in
\* descending order of that value.
C21_HybridTopByWeightedSum ==
    (sel_ret.op = "hybrid" /\ sel_pc = "idle")
    => LET r == sel_ret.result
           all == RecordsOf(sel_ret.archive)
           returned == {r[i] : i \in 1..Len(r)}
       IN /\ sel_ret.raised = "none"
          /\ Len(r) = Smaller(sel_ret.n_parents, ArchiveSize(sel_ret.archive))
          /\ Cardinality(returned) = Len(r)
          /\ returned \subseteq all
          /\ \A a \in all \ returned, b \in returned :
                 HybridValue(a, sel_ret.archive) <= HybridValue(b, sel_ret.archive)
          /\ \A i, j \in 1..Len(r) :
                 i < j => HybridValue(r[i], sel_ret.archive) >= HybridValue(r[j], sel_ret.archive)

---------------------------------------------------------------------------
\* Further properties of ImplementationManager (checked under SpecImpl)

\* C27: the changes of a proposal are applied in priority order: while the
\* loop of implement_proposal runs, no change it has already handled has a
\* higher priority integer than a change it has not handled yet.
C27_AppliedInPriorityOrder ==
    pc = "apply"
    => \A i, j \in 1..Len(proposal) :
           (i < idx /\ j >= idx) => proposal[i].priority <= proposal[j].priority

\* C29: a rollback of implement_proposal restores the snapshot taken at the
\* start of the same call (the one results['backup_path'] names), never a
\* snapshot taken by an earlier call.
C29_RollbackUsesOwnSnapshot ==
    (pc = "done" /\ rolled_from # NoBackup) => rolled_from = results.backup_path

---------------------------------------------------------------------------
\* Further properties of archive/archive_manager.py (checked under SpecManager)

\* C30: when add_agent returns an agent id, the archive holds the record of
\* that id and its code snapshot is on disk: the eviction inside add_agent
\* does not remove the record the call has just made.
C30_AddedAgentIsKept ==
    [][(ManagerAddAgentCalled /\ am_ret'.raised = "none")
       => /\ am_ret'.agent_id \in Ids(entries')
          /\ am_ret'.agent_id \in DOMAIN agent_files']_vars

---------------------------------------------------------------------------
\* Properties of archive/novelty_calculator.py (checked under SpecDistance)

\* C22: the distance of a feature vector to itself is 0, also for a vector
\* that has no comparable category.
C22_DistanceToItselfIsZero ==
    (fn_args.op = "_calculate_distance" /\ fn_ret.called
         /\ fn_args.chars1 = fn_args.chars2)
    => fn_ret.value = <<0, 1>>

---------------------------------------------------------------------------
\* Properties of self_modification/modification_proposal.py (checked under
\* SpecPropose)

\* C23: every proposal generate_proposal returns holds at most
\* max_changes_per_proposal (5) CodeChanges.
C23_AtMostFiveChanges ==
    (fn_args.op = "generate_proposal" /\ fn_ret.called)
    => Len(fn_ret.value) <= max_changes_per_proposal

---------------------------------------------------------------------------
\* Properties of _apply_add_change (checked under SpecAdd)

\* the anchor an 'add' change names is found in the file
AnchorResolvable(content, location) ==
    \/ location = "imports" /\ FindImportLine(SplitLines(content), 0) # -1
    \/ location = "__init__" /\ FindInitEnd(SplitLines(content), 0, FALSE, -1) # -1

\* C28: an 'add' change with non-empty new_code on an existing file (that
\* can be read, on a disk that can hold the result) succeeds: new_code is
\* in the file afterwards, appended to its end when the anchor the change
\* names is not resolvable.
C28_AddAlwaysSucceeds ==
    LET fs == fn_args.fs
        change == fn_args.change
        f == change.file_path
    IN (/\ fn_args.op = "_apply_add_change"
        /\ fn_ret.called
        /\ change.new_code # NoCode
        /\ f \in DOMAIN fs
        /\ ~Undecodable(fs[f])
        /\ Len(fs[f]) + 2 + Len(change.new_code) <= MaxLen)
       => /\ fn_ret.value.res = "ok"
          /\ Contains(fn_ret.value.fs[f], change.new_code)
          /\ ~AnchorResolvable(fs[f], change.location)
             => fn_ret.value.fs[f] = fs[f] \o <<"nl", "nl">> \o change.new_code

---------------------------------------------------------------------------
\* Properties of two processes on one archive directory (checked under
\* SpecParallel)

\* C25: the index updates of processes that share an archive directory are
\* serialized and none is lost: every record an add_agent call of either
\* process has added is in the persisted index.
C25_NoLostUpdate ==
    ((DOMAIN agents) \cup (DOMAIN peer_agents)) \subseteq DOMAIN metadata_file.agents

---------------------------------------------------------------------------
\* Properties of DGMController.run (checked under SpecController)

\* a pass of the loop in which _run_generation raised
GenerationFailed ==
    /\ self_generation' = self_generation + 1
    /\ gen_log'.raised # "none"

\* the records, the index and the directories of the archived agents stay
ArchiveUnchanged ==
    /\ agents' = agents
    /\ metadata_file' = metadata_file
    /\ agent_dirs' = agent_dirs

C26_FailedEvaluationAbandoned ==
    [][(evaluation' # evaluation /\ evaluation'.failed # {}) => ArchiveUnchanged]_vars

=============================================================================
